---- MODULE Spec2Model ----
(***************************************************************************)
(* Model of the miniswap scraping tools:                                   *)
(*   - the listing drive (scraper.py) over lib/fetchWeb (trust fallback)   *)
(*     or lib_scraper/fetchWeb (session with transport retries),           *)
(*   - the withSSLRetry wrapper of lib/retryStrategy,                      *)
(*   - the document drive (downloader.py and                               *)
(*     lib_downloader/downloadOrchestrator) over the bounded-retry         *)
(*     searchBuildInstructions, getPdfLink and downloadPdf.                *)
(*   - sanitizeYear and sanitizeSKU of lib/sanitizer, each applied on its  *)
(*     own to one text.                                                    *)
(* Text is a sequence of one-character strings, so that split, strip and   *)
(* startswith are computed as Python computes them.  An optional value is  *)
(* a sequence of length at most one: None is << >>.                        *)
(***************************************************************************)
EXTENDS Integers, Sequences, FiniteSets, TLC

VARIABLES
    program,        \* which entry point runs
    pc,             \* position in the running program
    raised,         \* class of the exception that ended the program, or "none"
    call,           \* the fetch operation in progress or last completed
    attempts,       \* the requests issued by that operation, in order
    currentPage,    \* fetchListings: loop variable of the generator
    htmls,          \* scraper.py: list(fetchListings())
    yielded,        \* the page index each element of htmls was fetched for
    pageIdx,        \* scraper.py: position in htmls
    kitsToScrape,   \* scraper.py: parseListings(html)
    skuIdx,         \* scraper.py: position in kitsToScrape
    outputJson,     \* the record store output.json
    kits,           \* downloader: the catalog loaded from JSON_PATH
    kitIdx,         \* downloader: position in kits
    candidates,     \* downloader: searchBuildInstructions(name)
    candIdx,        \* downloader: position in candidates
    pdfUrl,         \* downloader: getPdfLink(cand["url"])
    attempt,        \* bounded-retry loops: the loop variable
    successful,     \* processAllKits: counter
    failed,         \* processAllKits: counter
    results,        \* processKit / downloaded flag, one per entry handled
    tried,          \* candidates whose page was requested, for the current entry
    kitRequests,    \* the kinds of request issued for the current entry
    downloads,      \* successful downloadPdf calls for the current entry
    pdfs,           \* the document folder: path -> body
    arg,            \* sanitizer functions called on their own: the argument
    ret,            \* sanitizer functions called on their own: the result
    appenders,      \* append_to_json called by several processes: each one's position
    stored          \* the array of the last write to output.json that completed

vars == <<program, pc, raised, call, attempts, currentPage, htmls, yielded, pageIdx,
          kitsToScrape, skuIdx, outputJson, kits, kitIdx, candidates, candIdx,
          pdfUrl, attempt, successful, failed, results, tried, kitRequests,
          downloads, pdfs, arg, ret, appenders, stored>>

sanitizerVars == <<arg, ret>>
storeVars == <<appenders, stored>>
scraperVars == <<currentPage, htmls, yielded, pageIdx, kitsToScrape, skuIdx, outputJson>>
docVars == <<kits, kitIdx, candidates, candIdx, pdfUrl, attempt, successful,
             failed, results, tried, kitRequests, downloads, pdfs>>

----------------------------------------------------------------------------
(* Bounds of the model *)

MaxPages == 2
MaxKits == 2
MaxDateLen == 7
MaxLinkLen == 6
MaxAppends == 2

(* Program constants *)

START_PAGE == 25
START_PAGE_session == 13
\* the first page of the range of the fetchWeb module the program runs over
FirstPage == IF program = "scraperSession" THEN START_PAGE_session ELSE START_PAGE
\* the range of pages, cut down to MaxPages pages
END_PAGE == FirstPage + MaxPages - 1
MAX_RETRIES == 3
status_forcelist == {429, 500, 502, 503, 504}

None == << >>
Some(x) == << x >>

----------------------------------------------------------------------------
(* Python text functions *)

Whitespace == {" ", "\t", "\n"}

RECURSIVE SplitWs(_, _, _)
SplitWs(s, cur, acc) ==
    IF s = << >> THEN (IF cur = << >> THEN acc ELSE Append(acc, cur))
    ELSE IF Head(s) \in Whitespace
         THEN SplitWs(Tail(s), << >>, IF cur = << >> THEN acc ELSE Append(acc, cur))
         ELSE SplitWs(Tail(s), Append(cur, Head(s)), acc)

\* str.split(): runs of whitespace separate, no empty tokens
split(s) == SplitWs(s, << >>, << >>)

RECURSIVE SplitOn(_, _, _, _)
SplitOn(s, sep, cur, acc) ==
    IF s = << >> THEN Append(acc, cur)
    ELSE IF Head(s) = sep
         THEN SplitOn(Tail(s), sep, << >>, Append(acc, cur))
         ELSE SplitOn(Tail(s), sep, Append(cur, Head(s)), acc)

\* str.split(sep): every separator splits, empty tokens are kept
splitSep(s, sep) == SplitOn(s, sep, << >>, << >>)

startswith(s, p) == Len(s) >= Len(p) /\ SubSeq(s, 1, Len(p)) = p

endswith(s, p) == Len(s) >= Len(p) /\ SubSeq(s, Len(s) - Len(p) + 1, Len(s)) = p

RECURSIVE lstrip(_)
lstrip(s) == IF s # << >> /\ Head(s) \in Whitespace THEN lstrip(Tail(s)) ELSE s

RECURSIVE rstrip(_)
rstrip(s) ==
    IF s # << >> /\ s[Len(s)] \in Whitespace THEN rstrip(SubSeq(s, 1, Len(s) - 1)) ELSE s

strip(s) == rstrip(lstrip(s))

LowerChar(c) ==
    CASE c = "P" -> "p" [] c = "D" -> "d" [] c = "F" -> "f"
      [] c = "K" -> "k" [] c = "A" -> "a" [] OTHER -> c

lower(s) == [i \in 1..Len(s) |-> LowerChar(s[i])]

----------------------------------------------------------------------------
(* Results of a Python call: a value, or an exception that propagates *)

Return(v) == [raised |-> "none", value |-> v]
Raise(e) == [raised |-> e, value |-> None]

(* requests' exception classes: SSLError < ConnectionError < RequestException,
   Timeout < RequestException, RetryError < RequestException *)
Parent(c) ==
    CASE c = "SSLError" -> "ConnectionError"
      [] c = "ConnectionError" -> "RequestException"
      [] c = "Timeout" -> "RequestException"
      [] c = "RetryError" -> "RequestException"
      [] c = "RequestException" -> "IOError"
      [] OTHER -> "Exception"

RECURSIVE isinstance(_, _)
isinstance(e, class) ==
    IF e = class THEN TRUE
    ELSE IF e = "Exception" THEN FALSE
    ELSE isinstance(Parent(e), class)

NetworkErrors == {"SSLError", "ConnectionError", "Timeout"}

----------------------------------------------------------------------------
(* lib/sanitizer.py *)

\* variant: the second token is returned
sanitizeYear_secondToken(date) ==
    LET parts == split(date)
    IN IF Len(parts) = 3 THEN Return(parts[2]) ELSE Raise("ValueError")

\* variant: len(parts) >= 3
sanitizeYear_atLeastThree(date) ==
    LET parts == split(date)
    IN IF Len(parts) >= 3 THEN Return(parts[3]) ELSE Raise("ValueError")

\* variant: the last part is returned
sanitizeSKU_lastPart(skuLink) ==
    LET parts == splitSep(skuLink, "/")
    IN IF Len(parts) >= 3
       THEN LET sku == parts[Len(parts)]
            IN IF startswith(sku, <<"g", "w", "-">>)
               THEN Return(SubSeq(sku, 4, Len(sku)))
               ELSE Return(sku)
       ELSE Raise("ValueError")

sanitizeYear(date) ==
    LET parts == split(date)
    IN IF Len(parts) = 3 THEN Return(parts[3]) ELSE Raise("ValueError")

sanitizeSKU(skuLink) ==
    LET parts == splitSep(skuLink, "/")
    IN IF Len(parts) >= 3
       THEN LET sku == parts[3]
            IN IF startswith(sku, <<"g", "w", "-">>)
               THEN Return(SubSeq(sku, 4, Len(sku)))
               ELSE Return(sku)
       ELSE Raise("ValueError")

----------------------------------------------------------------------------
(* lib_scraper/scraper.py.  A listing page is [table, rows]: whether it has
   a table of class views-table, and the tr elements of the page's first
   table, of that class or not; a row is
   [tds, span, a]: the number of td cells, the text of the date span of the
   first cell (None: no such span) and the anchor of the second cell (None:
   no anchor; Some(None): an anchor without href; Some(Some(t)): href t). *)

EXCLUDED_YEAR == <<"2", "0", "2", "5">>
SKU_PREFIX == <<"9", "9">>

\* variant: every sku of a row of another year is kept, whatever it starts with
parseRow_noPrefixFilter(row) ==
    IF row.tds < 2 THEN [do |-> "skip"]
    ELSE IF row.span = None THEN [do |-> "skip"]
    ELSE LET year == sanitizeYear(row.span[1])
         IN IF year.raised # "none" THEN [do |-> "raise", exc |-> year.raised]
            ELSE IF year.value = EXCLUDED_YEAR THEN [do |-> "skip"]
            ELSE IF row.a = None THEN [do |-> "raise", exc |-> "AttributeError"]
            ELSE LET href == IF row.a[1] = None THEN << >> ELSE row.a[1][1]
                     sku == sanitizeSKU(strip(href))
                 IN IF sku.raised # "none" THEN [do |-> "raise", exc |-> sku.raised]
                    ELSE [do |-> "append", sku |-> sku.value]

\* one iteration of the loop over the rows: "skip", "append" with the sku,
\* or "raise" with the exception that leaves parseListings
parseRow(row) ==
    IF row.tds < 2 THEN [do |-> "skip"]
    ELSE IF row.span = None THEN [do |-> "skip"]
    ELSE LET year == sanitizeYear(row.span[1])
         IN IF year.raised # "none" THEN [do |-> "raise", exc |-> year.raised]
            ELSE IF year.value = EXCLUDED_YEAR THEN [do |-> "skip"]
            ELSE IF row.a = None THEN [do |-> "raise", exc |-> "AttributeError"]
            ELSE LET href == IF row.a[1] = None THEN << >> ELSE row.a[1][1]
                     sku == sanitizeSKU(strip(href))
                 IN IF sku.raised # "none" THEN [do |-> "raise", exc |-> sku.raised]
                    ELSE IF ~startswith(sku.value, SKU_PREFIX) THEN [do |-> "skip"]
                    ELSE [do |-> "append", sku |-> sku.value]

RECURSIVE parseRows(_, _)
parseRows(rows, kitsSoFar) ==
    IF rows = << >> THEN Return(kitsSoFar)
    ELSE LET r == parseRow(Head(rows))
         IN CASE r.do = "raise" -> Raise(r.exc)
              [] r.do = "append" -> parseRows(Tail(rows), Append(kitsSoFar, r.sku))
              [] OTHER -> parseRows(Tail(rows), kitsSoFar)

\* variant: the rows are read without looking for the table
parseListings_noTableCheck(html) == parseRows(html.rows, << >>)

parseListings(html) ==
    IF ~html.table THEN Return(<< >>) ELSE parseRows(html.rows, << >>)

RECURSIVE join(_, _)
join(sep, strs) ==
    IF strs = << >> THEN << >>
    ELSE IF Len(strs) = 1 THEN strs[1]
    ELSE strs[1] \o sep \o join(sep, Tail(strs))

RECURSIVE firstVisible(_)
firstVisible(containers) ==
    IF containers = << >> THEN None
    ELSE IF ~Head(containers).hidden
         THEN Some(join(<<" ">>, [i \in 1..Len(Head(containers).ps) |->
                                      strip(Head(containers).ps[i])]))
         ELSE firstVisible(Tail(containers))

(* A detail page is [main, b, containers]: main is None (no div#main) or
   Some(h1) with h1 None or Some(title); b is None (no price label) or
   Some(sibling) with sibling None or Some(text); containers are the
   text-inner-container divs, each [hidden, ps]. *)
parseKitDetails(html, sku) ==
    IF html.main = None THEN Raise("AttributeError")
    ELSE IF html.main[1] = None THEN Raise("AttributeError")
    ELSE IF html.b = None THEN Raise("AttributeError")
    ELSE IF html.b[1] = None THEN Raise("AttributeError")
    ELSE Return([name |-> strip(html.main[1][1]),
                 description |-> firstVisible(html.containers),
                 last_known_price |-> strip(html.b[1][1]),
                 sku |-> sku])

----------------------------------------------------------------------------
(* Pages the listing site may serve *)

Date2024 == <<"7", " ", "M", " ", "2", "0", "2", "4">>
Date2025 == <<"7", " ", "M", " ", "2", "0", "2", "5">>
DateTwoTokens == <<"M", " ", "2", "0", "2", "4">>
LinkGw991 == <<"/", "s", "/", "g", "w", "-", "9", "9", "1">>
Link992 == <<"/", "s", "/", "9", "9", "2">>
Link881 == <<"/", "s", "/", "8", "8", "1">>

Row(date, link) == [tds |-> 2, span |-> Some(date), a |-> Some(Some(link))]
RowOneCell == [tds |-> 1, span |-> None, a |-> None]
RowNoSpan == [tds |-> 2, span |-> None, a |-> Some(Some(LinkGw991))]
RowNoAnchor == [tds |-> 2, span |-> Some(Date2024), a |-> None]
RowNoHref == [tds |-> 2, span |-> Some(Date2024), a |-> Some(None)]

ListingPages ==
    { [table |-> FALSE, rows |-> <<Row(Date2024, Link992)>>],
      [table |-> TRUE, rows |-> <<Row(Date2024, LinkGw991), Row(Date2025, Link992),
                                  Row(Date2024, Link881)>>],
      [table |-> TRUE, rows |-> <<Row(Date2024, Link992), RowOneCell, RowNoSpan,
                                  Row(Date2024, LinkGw991)>>],
      [table |-> TRUE, rows |-> <<Row(Date2024, LinkGw991), Row(DateTwoTokens, Link992),
                                  Row(Date2024, Link992)>>],
      [table |-> TRUE, rows |-> <<RowNoAnchor, Row(Date2024, LinkGw991)>>],
      [table |-> TRUE, rows |-> <<Row(Date2024, Link992), RowNoHref>>] }

Title == <<" ", "K", "i", "t">>
Price == <<" ", "$", "5">>
Para == <<"p">>

DetailPages ==
    { [main |-> Some(Some(Title)), b |-> Some(Some(Price)),
       containers |-> <<[hidden |-> TRUE, ps |-> <<Para>>],
                        [hidden |-> FALSE, ps |-> <<Para, Para>>]>>],
      [main |-> Some(Some(Title)), b |-> Some(Some(Price)),
       containers |-> <<[hidden |-> TRUE, ps |-> <<Para>>]>>],
      [main |-> None, b |-> Some(Some(Price)), containers |-> << >>],
      [main |-> Some(None), b |-> Some(Some(Price)), containers |-> << >>],
      [main |-> Some(Some(Title)), b |-> None, containers |-> << >>] }

----------------------------------------------------------------------------
(* The network: what one requests.get may do.  A response is
   [exc, status, text]; exc is "none" when a response came back. *)

Statuses == {200, 204, 404, 503}

Response(status, body) == [exc |-> "none", status |-> status, text |-> body]
Failure(exc) == [exc |-> exc, status |-> 0, text |-> None]

Responses(bodies) ==
    { Response(200, Some(b)) : b \in bodies }
    \cup { Response(s, None) : s \in Statuses \ {200} }
    \cup { Failure(e) : e \in NetworkErrors }

\* what the log of attempts keeps of a request
Attempt(url, verify, r) ==
    [url |-> url, verify |-> verify, exc |-> r.exc, status |-> r.status, text |-> r.text]

----------------------------------------------------------------------------
(* The programs *)

Programs == {"scraper", "scraperSession", "fetchListings", "withSSLRetry", "processAllKits",
             "downloader", "sanitizeYear", "sanitizeSKU"}

\* scraper.py runs over lib/fetchWeb ("scraper") or over the session of
\* lib_scraper/fetchWeb ("scraperSession")
ScraperPrograms == {"scraper", "scraperSession"}
DocPrograms == {"processAllKits", "downloader"}
\* the programs that run the generator of lib/fetchWeb.py: scraper.py, and
\* "fetchListings", a caller that iterates the generator to its end and then
\* iterates the same instance again
GeneratorPrograms == {"scraper", "fetchListings"}

ListingUrl(page) == [site |-> "page-", id |-> <<page>>]
KitUrl(sku) == [site |-> "gw-", id |-> sku]
RequestUrl == [site |-> "requestFunc", id |-> << >>]

NoCall == [op |-> "none", url |-> RequestUrl, done |-> TRUE, value |-> None]
Running(op, url) == [op |-> op, url |-> url, done |-> FALSE, value |-> None]
Returned(op, url, v) == [op |-> op, url |-> url, done |-> TRUE, value |-> v]

\* an exception nothing catches ends the program
Propagate(e) ==
    /\ pc' = "crashed"
    /\ raised' = e

----------------------------------------------------------------------------
(* The record store (lib_scraper/manageJSON.py).  The file is absent, holds
   text that is no JSON, or holds a JSON array. *)

StoredRecord == [name |-> <<"o", "l", "d">>, description |-> None,
                 last_known_price |-> <<"$", "1">>, sku |-> <<"9", "9", "0">>]

StoreFiles ==
    { [exists |-> FALSE, valid |-> FALSE, data |-> << >>],
      [exists |-> TRUE, valid |-> FALSE, data |-> << >>],
      [exists |-> TRUE, valid |-> TRUE, data |-> <<StoredRecord>>] }

json_load(file) == IF file.exists /\ file.valid THEN file.data ELSE << >>

(* open(filepath, 'w') truncates the file and json.dump writes the array
   piece by piece: the write either completes or fails with OSError on the
   way, and then the file holds the beginning of an array, which is no JSON. *)
DumpOutcomes == {"written", "OSError"}

json_dump(data, w) ==
    IF w = "written" THEN [exists |-> TRUE, valid |-> TRUE, data |-> data]
    ELSE [exists |-> TRUE, valid |-> FALSE, data |-> << >>]

\* variant: a record equal to a stored one is not added again
append_to_json_upsert(file, item, w) ==
    IF \E i \in 1..Len(json_load(file)) : json_load(file)[i] = item
    THEN json_dump(json_load(file), w)
    ELSE json_dump(Append(json_load(file), item), w)

append_to_json(file, item, w) == json_dump(Append(json_load(file), item), w)

----------------------------------------------------------------------------
(* The two-tier attempt of lib/retryStrategy.py, repeated in the two
   functions of lib/fetchWeb.py: what the code does with the outcome r of
   the request made with the given verify flag.  sslClass and outerClass
   are the classes of the except clauses of the outer try, innerClass the
   class of the except clause of the inner try. *)

twoTier(r, verify, sslClass, outerClass, innerClass) ==
    IF r.exc = "none"
    THEN [do |-> "return", value |-> IF r.status = 200 THEN r.text ELSE None]
    ELSE IF verify
         THEN IF isinstance(r.exc, sslClass) THEN [do |-> "retry", value |-> None]
              ELSE IF isinstance(r.exc, outerClass) THEN [do |-> "return", value |-> None]
              ELSE [do |-> "raise", value |-> None]
         ELSE IF isinstance(r.exc, innerClass) THEN [do |-> "return", value |-> None]
              ELSE [do |-> "raise", value |-> None]

\* variants of the three functions with one except clause changed
withSSLRetry_try_noInnerCatch(r, verify) ==
    twoTier(r, verify, "SSLError", "RequestException", "Timeout")

fetchListings_try_anyConnectionError(r, verify) ==
    twoTier(r, verify, "ConnectionError", "RequestException", "RequestException")

fetchKitDetails_try_fallbackOnAny(r, verify) ==
    twoTier(r, verify, "RequestException", "RequestException", "RequestException")

withSSLRetry_try(r, verify) ==
    twoTier(r, verify, "SSLError", "RequestException", "RequestException")

fetchListings_try(r, verify) ==
    twoTier(r, verify, "SSLError", "RequestException", "RequestException")

fetchKitDetails_try(r, verify) ==
    twoTier(r, verify, "SSLError", "RequestException", "RequestException")

(* lib_scraper/fetchWeb.py: one session.get, no fallback.  The adapter of
   the session retries inside session.get; a status of the forcelist that
   persists comes back as RetryError. *)
SessionResponses(bodies) ==
    { r \in Responses(bodies) : r.status \notin status_forcelist }
    \cup { Failure("RetryError") }

session_try(r) ==
    IF r.exc = "none"
    THEN [do |-> "return", value |-> IF r.status = 200 THEN r.text ELSE None]
    ELSE IF isinstance(r.exc, "Timeout") THEN [do |-> "return", value |-> None]
    ELSE IF isinstance(r.exc, "RequestException") THEN [do |-> "return", value |-> None]
    ELSE [do |-> "raise", value |-> None]

----------------------------------------------------------------------------
(* withSSLRetry(requestFunc): requestFunc(verify) performs one request *)

withSSLRetry_step(r, verify) ==
    /\ program = "withSSLRetry"
    /\ pc = (IF verify THEN "withSSLRetry" ELSE "withSSLRetry_fallback")
    /\ attempts' = (IF verify THEN << >> ELSE attempts) \o <<Attempt(RequestUrl, verify, r)>>
    /\ LET t == withSSLRetry_try(r, verify)
       IN CASE t.do = "return" ->
                 /\ call' = Returned("withSSLRetry", RequestUrl,
                                     <<t.value, r.exc = "none" /\ r.status = 200>>)
                 /\ pc' = "done"
                 /\ UNCHANGED raised
            [] t.do = "retry" ->
                 /\ call' = Running("withSSLRetry", RequestUrl)
                 /\ pc' = "withSSLRetry_fallback"
                 /\ UNCHANGED raised
            [] OTHER ->
                 /\ call' = Running("withSSLRetry", RequestUrl)
                 /\ Propagate(r.exc)
    /\ UNCHANGED <<program, scraperVars, docVars, sanitizerVars, storeVars>>

----------------------------------------------------------------------------
(* fetchListings: the generator, run to its end by list() in scraper.py *)

\* where the caller goes on when the for loop of the generator has ended
AfterLastPage == IF program = "fetchListings" THEN "exhausted" ELSE "forHtml"

\* variant: the generator returns at the first page that fails
Yield_stopAtFailure(url, v) ==
    /\ call' = Returned("fetchListings", url, v)
    /\ htmls' = Append(htmls, v)
    /\ yielded' = Append(yielded, currentPage)
    /\ currentPage' = currentPage + 1
    /\ pc' = (IF currentPage + 1 > END_PAGE \/ v = None THEN AfterLastPage ELSE "fetchListings")
    /\ UNCHANGED raised

\* variant: the for loop is left after the first page, the caller parses it
Yield_lazy(url, v) ==
    /\ call' = Returned("fetchListings", url, v)
    /\ htmls' = Append(htmls, v)
    /\ yielded' = Append(yielded, currentPage)
    /\ currentPage' = currentPage + 1
    /\ pc' = AfterLastPage
    /\ UNCHANGED raised

Yield(url, v) ==
    /\ call' = Returned("fetchListings", url, v)
    /\ htmls' = Append(htmls, v)
    /\ yielded' = Append(yielded, currentPage)
    /\ currentPage' = currentPage + 1
    /\ pc' = (IF currentPage + 1 > END_PAGE THEN AfterLastPage ELSE "fetchListings")
    /\ UNCHANGED raised

fetchListings_step(r, verify) ==
    /\ program \in GeneratorPrograms
    /\ pc = (IF verify THEN "fetchListings" ELSE "fetchListings_fallback")
    /\ LET url == ListingUrl(currentPage)
           t == fetchListings_try(r, verify)
       IN /\ attempts' = (IF verify THEN << >> ELSE attempts) \o <<Attempt(url, verify, r)>>
          /\ CASE t.do = "return" -> Yield(url, t.value)
               [] t.do = "retry" ->
                    /\ call' = Running("fetchListings", url)
                    /\ pc' = "fetchListings_fallback"
                    /\ UNCHANGED <<raised, htmls, yielded, currentPage>>
               [] OTHER ->
                    /\ call' = Running("fetchListings", url)
                    /\ Propagate(r.exc)
                    /\ UNCHANGED <<htmls, yielded, currentPage>>
    /\ UNCHANGED <<program, pageIdx, kitsToScrape, skuIdx, outputJson, docVars, sanitizerVars, storeVars>>

fetchListings_session(r) ==
    /\ program = "scraperSession"
    /\ pc = "fetchListings"
    /\ LET url == ListingUrl(currentPage)
           t == session_try(r)
       IN /\ attempts' = <<Attempt(url, TRUE, r)>>
          /\ IF t.do = "return" THEN Yield(url, t.value)
             ELSE /\ call' = Running("fetchListings", url)
                  /\ Propagate(r.exc)
                  /\ UNCHANGED <<htmls, yielded, currentPage>>
    /\ UNCHANGED <<program, pageIdx, kitsToScrape, skuIdx, outputJson, docVars, sanitizerVars, storeVars>>

\* variant: iterating again runs the function body again from START_PAGE
Resumed_restart ==
    /\ currentPage' = FirstPage
    /\ pc' = "fetchListings"

\* the for loop over range(START_PAGE, END_PAGE + 1) has ended and the
\* function has returned: the generator is finished
Resumed ==
    /\ UNCHANGED currentPage
    /\ pc' = "exhausted"

\* next() on the instance after its last yield: StopIteration
fetchListings_next ==
    /\ program = "fetchListings"
    /\ pc = "exhausted"
    /\ Resumed
    /\ call' = Returned("next", ListingUrl(currentPage), None)
    /\ raised' = "StopIteration"
    /\ UNCHANGED <<program, attempts, htmls, yielded, pageIdx, kitsToScrape, skuIdx,
                   outputJson, docVars, sanitizerVars, storeVars>>

----------------------------------------------------------------------------
(* scraper.py: the loop over the pages and their kits *)

scraper_forHtml ==
    /\ program \in ScraperPrograms
    /\ pc = "forHtml"
    /\ IF pageIdx > Len(htmls)
       THEN /\ pc' = "done"
            /\ UNCHANGED <<raised, pageIdx, kitsToScrape, skuIdx>>
       ELSE IF htmls[pageIdx] = None
       THEN /\ pageIdx' = pageIdx + 1
            /\ UNCHANGED <<pc, raised, kitsToScrape, skuIdx>>
       ELSE LET parsed == parseListings(htmls[pageIdx][1])
            IN IF parsed.raised # "none"
               THEN /\ Propagate(parsed.raised)
                    /\ UNCHANGED <<pageIdx, kitsToScrape, skuIdx>>
               ELSE /\ kitsToScrape' = parsed.value
                    /\ skuIdx' = 1
                    /\ pc' = "forSku"
                    /\ UNCHANGED <<raised, pageIdx>>
    /\ UNCHANGED <<program, call, attempts, currentPage, htmls, yielded, outputJson, docVars, sanitizerVars, storeVars>>

scraper_endOfPage ==
    /\ program \in ScraperPrograms
    /\ pc = "forSku"
    /\ skuIdx > Len(kitsToScrape)
    /\ pageIdx' = pageIdx + 1
    /\ pc' = "forHtml"
    /\ UNCHANGED <<program, raised, call, attempts, currentPage, htmls, yielded,
                   kitsToScrape, skuIdx, outputJson, docVars, sanitizerVars, storeVars>>

fetchKitDetails_step(r, verify) ==
    /\ program = "scraper"
    /\ pc = (IF verify THEN "forSku" ELSE "fetchKitDetails_fallback")
    /\ skuIdx <= Len(kitsToScrape)
    /\ LET url == KitUrl(kitsToScrape[skuIdx])
           t == fetchKitDetails_try(r, verify)
       IN /\ attempts' = (IF verify THEN << >> ELSE attempts) \o <<Attempt(url, verify, r)>>
          /\ CASE t.do = "return" ->
                    /\ call' = Returned("fetchKitDetails", url, t.value)
                    /\ pc' = "gotDetails"
                    /\ UNCHANGED raised
               [] t.do = "retry" ->
                    /\ call' = Running("fetchKitDetails", url)
                    /\ pc' = "fetchKitDetails_fallback"
                    /\ UNCHANGED raised
               [] OTHER ->
                    /\ call' = Running("fetchKitDetails", url)
                    /\ Propagate(r.exc)
    /\ UNCHANGED <<program, scraperVars, docVars, sanitizerVars, storeVars>>

fetchKitDetails_session(r) ==
    /\ program = "scraperSession"
    /\ pc = "forSku"
    /\ skuIdx <= Len(kitsToScrape)
    /\ LET url == KitUrl(kitsToScrape[skuIdx])
           t == session_try(r)
       IN /\ attempts' = <<Attempt(url, TRUE, r)>>
          /\ IF t.do = "return"
             THEN /\ call' = Returned("fetchKitDetails", url, t.value)
                  /\ pc' = "gotDetails"
                  /\ UNCHANGED raised
             ELSE /\ call' = Running("fetchKitDetails", url)
                  /\ Propagate(r.exc)
    /\ UNCHANGED <<program, scraperVars, docVars, sanitizerVars, storeVars>>

\* variant: a detail fetch that failed ends the loop over the kits of the page
scraper_gotDetails_stopOnFailure(w) ==
    /\ program \in ScraperPrograms
    /\ pc = "gotDetails"
    /\ IF call.value = None
       THEN /\ skuIdx' = Len(kitsToScrape) + 1
            /\ pc' = "forSku"
            /\ UNCHANGED <<raised, outputJson>>
       ELSE LET details == parseKitDetails(call.value[1], kitsToScrape[skuIdx])
            IN IF details.raised # "none"
               THEN /\ Propagate(details.raised)
                    /\ UNCHANGED <<skuIdx, outputJson>>
               ELSE /\ outputJson' = append_to_json(outputJson, details.value, w)
                    /\ IF w = "written"
                       THEN /\ skuIdx' = skuIdx + 1
                            /\ pc' = "forSku"
                            /\ UNCHANGED raised
                       ELSE /\ Propagate(w)
                            /\ UNCHANGED skuIdx
    /\ UNCHANGED <<program, call, attempts, currentPage, htmls, yielded, pageIdx,
                   kitsToScrape, docVars, sanitizerVars, storeVars>>

scraper_gotDetails(w) ==
    /\ program \in ScraperPrograms
    /\ pc = "gotDetails"
    /\ IF call.value = None
       THEN /\ skuIdx' = skuIdx + 1
            /\ pc' = "forSku"
            /\ UNCHANGED <<raised, outputJson>>
       ELSE LET details == parseKitDetails(call.value[1], kitsToScrape[skuIdx])
            IN IF details.raised # "none"
               THEN /\ Propagate(details.raised)
                    /\ UNCHANGED <<skuIdx, outputJson>>
               ELSE /\ outputJson' = append_to_json(outputJson, details.value, w)
                    /\ IF w = "written"
                       THEN /\ skuIdx' = skuIdx + 1
                            /\ pc' = "forSku"
                            /\ UNCHANGED raised
                       ELSE /\ Propagate(w)
                            /\ UNCHANGED skuIdx
    /\ UNCHANGED <<program, call, attempts, currentPage, htmls, yielded, pageIdx,
                   kitsToScrape, docVars, sanitizerVars, storeVars>>

----------------------------------------------------------------------------
(* lib_downloader: names, paths and the pages of the instruction site *)

\* the three characters of the mis-decoded dash, each written as one token
Mojibake == <<"a^", "Euro", "ldquo">>
NameChars == {"a", "d", "f", "k", "p", "0", "1", "8", "9", "-"} \cup Whitespace

RECURSIVE replace(_, _, _)
replace(s, old, new) ==
    IF s = << >> THEN << >>
    ELSE IF startswith(s, old)
         THEN new \o replace(SubSeq(s, Len(old) + 1, Len(s)), old, new)
         ELSE <<Head(s)>> \o replace(Tail(s), old, new)

RECURSIVE keep(_, _)
keep(s, chars) ==
    IF s = << >> THEN << >>
    ELSE (IF Head(s) \in chars THEN <<Head(s)>> ELSE << >>) \o keep(Tail(s), chars)

normalizeName(name) == strip(keep(replace(lower(name), Mojibake, <<"-">>), NameChars))

quote(s) == replace(s, <<" ">>, <<"%20">>)

createPdfFilepath(sku, normalizedName) ==
    <<"pdfs/">> \o sku \o <<"_">> \o replace(normalizedName, <<" ">>, <<"_">>) \o <<".pdf">>

SearchUrl(kitName) == [site |-> "?s=", id |-> quote(normalizeName(kitName))]
PageUrl(u) == [site |-> "", id |-> u]

(* A search page is the sequence of its article elements, each [h2, a]: the
   text of its h2 (None: no h2) and its first anchor (None: no anchor;
   Some(None): no href; Some(Some(u)): href u). *)
Cand1 == <<"c", "1">>
Cand2 == <<"c", "2">>
Cand3 == <<"c", "3">>
Article(u) == [h2 |-> Some(<<" ", "t">>), a |-> Some(Some(u))]

SearchPages ==
    { << >>,
      <<Article(Cand1), Article(Cand2), Article(Cand3)>>,
      <<[h2 |-> None, a |-> Some(Some(Cand3))], Article(Cand1),
        [h2 |-> Some(<<"t">>), a |-> None]>>,
      <<Article(Cand1), [h2 |-> Some(<<"t">>), a |-> Some(None)]>> }

RECURSIVE parseArticles(_, _)
parseArticles(articles, found) ==
    IF articles = << >> THEN Return(found)
    ELSE LET article == Head(articles)
         IN IF article.h2 = None \/ article.a = None
            THEN parseArticles(Tail(articles), found)
            ELSE IF article.a[1] = None THEN Raise("KeyError")
            ELSE parseArticles(Tail(articles),
                     Append(found, [title |-> strip(article.h2[1]), url |-> article.a[1][1]]))

(* A candidate page is the sequence of its anchors, each None (no href) or
   Some(href). *)
CandidatePages ==
    { << >>,
      <<Some(<<"/", "x">>), None>>,
      <<None, Some(<<"/", "x">>), Some(<<"/", "a", ".", "P", "D", "F">>),
        Some(<<"/", "b", ".", "p", "d", "f">>)>> }

\* variant: href.endswith(".pdf") without lower()
RECURSIVE firstPdf_caseSensitive(_)
firstPdf_caseSensitive(anchors) ==
    IF anchors = << >> THEN None
    ELSE IF Head(anchors) # None /\ endswith(Head(anchors)[1], <<".", "p", "d", "f">>)
         THEN Head(anchors)
         ELSE firstPdf_caseSensitive(Tail(anchors))

RECURSIVE firstPdf(_)
firstPdf(anchors) ==
    IF anchors = << >> THEN None
    ELSE IF Head(anchors) # None /\ endswith(lower(Head(anchors)[1]), <<".", "p", "d", "f">>)
         THEN Head(anchors)
         ELSE firstPdf(Tail(anchors))

PdfBodies == { <<"%", "P", "D", "F">> }

(* The catalog: an entry is [name, sku], each None (key missing) or Some(text) *)
KitA == [name |-> Some(<<"K", "i", "t", " ", "A">>), sku |-> Some(<<"9", "9", "1">>)]
KitNoName == [name |-> None, sku |-> Some(<<"9", "9", "2">>)]
KitEmptySku == [name |-> Some(<<"K", "i", "t">>), sku |-> Some(<< >>)]
KitSamples == {KitA, KitNoName, KitEmptySku}

Catalogs == UNION { [1..n -> KitSamples] : n \in 0..MaxKits }

(* The document folder is a set of files [path, body].  open(filename, "wb")
   truncates or creates the file and f.write puts the content there; the
   write may fail with OSError (disk full, I/O error) after any part of the
   content, and nothing in downloadPdf catches that. *)
Writes(content) ==
    { [exc |-> "none", written |-> content] }
    \cup { [exc |-> "OSError", written |-> SubSeq(content, 1, n)] : n \in 0..(Len(content) - 1) }

\* variant: an existing file is left as it is (mode "x")
writeFile_keepExisting(files, path, written) ==
    IF \E f \in files : f.path = path THEN files
    ELSE files \cup {[path |-> path, body |-> written]}

writeFile(files, path, written) ==
    {f \in files : f.path # path} \cup {[path |-> path, body |-> written]}

\* the folder before the run: empty, or holding an earlier download of KitA
OldBody == <<"o", "l", "d">>
Folders ==
    { {},
      {[path |-> createPdfFilepath(KitA.sku[1], normalizeName(KitA.name[1])),
        body |-> OldBody]} }

\* variant: only a missing key is rejected
falsy_missingOnly(x) == x = None

\* Python's "not x" for an optional text
falsy(x) == x = None \/ x[1] = << >>

----------------------------------------------------------------------------
(* One attempt of a bounded-retry loop: what the loop does with the outcome
   r of its request.  "ok": a 200 response; "again": the next iteration;
   "raise": the exception leaves the function. *)

boundedTry(r, exceptClass) ==
    IF r.exc = "none" THEN (IF r.status = 200 THEN "ok" ELSE "again")
    ELSE IF isinstance(r.exc, exceptClass) THEN "again"
    ELSE "raise"

\* variant: only timeouts are caught
downloadPdf_try_timeoutOnly(r) == boundedTry(r, "Timeout")

\* variant: only timeouts are caught
getPdfLink_try_timeoutOnly(r) == boundedTry(r, "Timeout")

\* variant: only timeouts are caught
searchBuildInstructions_try_timeoutOnly(r) == boundedTry(r, "Timeout")

searchBuildInstructions_try(r) == boundedTry(r, "RequestException")
getPdfLink_try(r) == boundedTry(r, "RequestException")
downloadPdf_try(r) == boundedTry(r, "RequestException")

\* variant: range(1, MAX_RETRIES)
exhausted_oneShort == attempt >= MAX_RETRIES - 1

\* range(1, MAX_RETRIES + 1) has no further value
exhausted == attempt >= MAX_RETRIES

\* variant: the request that follows a certificate error is made without
\* verification
Log_insecureAfterSSLError(url, r) ==
    /\ attempts' = (IF attempt = 1 THEN << >> ELSE attempts)
                   \o <<Attempt(url, ~(attempt > 1 /\ attempts[Len(attempts)].exc = "SSLError"), r)>>
    /\ kitRequests' = kitRequests \cup {pc}

Log(url, r) ==
    /\ attempts' = (IF attempt = 1 THEN << >> ELSE attempts) \o <<Attempt(url, TRUE, r)>>
    /\ kitRequests' = kitRequests \cup {pc}

----------------------------------------------------------------------------
(* The document drive: processAllKits / processKit /
   tryDownloadFromCandidates, and the same loop written out in downloader.py *)

\* variant: a successful download does not end the loop over the candidates
EntryDone_noBreak(ok) ==
    IF ok /\ candIdx < Len(candidates)
    THEN /\ pc' = "getPdfLink"
         /\ candIdx' = candIdx + 1
         /\ attempt' = 1
         /\ UNCHANGED <<kitIdx, results, successful, failed, pdfUrl>>
    ELSE /\ pc' = "forKit"
         /\ kitIdx' = kitIdx + 1
         /\ results' = Append(results, ok)
         /\ successful' = (IF program = "processAllKits" /\ ok THEN successful + 1 ELSE successful)
         /\ failed' = (IF program = "processAllKits" /\ ~ok THEN failed + 1 ELSE failed)
         /\ candIdx' = 1
         /\ pdfUrl' = << >>
         /\ attempt' = 1

\* the entry is finished with processKit's result (downloader.py: downloaded)
EntryDone(ok) ==
    /\ pc' = "forKit"
    /\ kitIdx' = kitIdx + 1
    /\ results' = Append(results, ok)
    /\ successful' = (IF program = "processAllKits" /\ ok THEN successful + 1 ELSE successful)
    /\ failed' = (IF program = "processAllKits" /\ ~ok THEN failed + 1 ELSE failed)
    /\ candIdx' = 1
    /\ pdfUrl' = << >>
    /\ attempt' = 1

\* variant: tryDownloadFromCandidates returns True when the candidates run out
NextCandidate_trueWhenExhausted ==
    IF candIdx >= Len(candidates)
    THEN EntryDone(TRUE)
    ELSE /\ pc' = "getPdfLink"
         /\ candIdx' = candIdx + 1
         /\ attempt' = 1
         /\ UNCHANGED <<kitIdx, results, successful, failed, pdfUrl>>

\* the next iteration of the loop over the candidates
NextCandidate ==
    IF candIdx >= Len(candidates)
    THEN EntryDone(FALSE)
    ELSE /\ pc' = "getPdfLink"
         /\ candIdx' = candIdx + 1
         /\ attempt' = 1
         /\ UNCHANGED <<kitIdx, results, successful, failed, pdfUrl>>

Again ==
    /\ attempt' = attempt + 1
    /\ UNCHANGED <<pc, kitIdx, results, successful, failed, candIdx, pdfUrl>>

Crash(e) ==
    /\ Propagate(e)
    /\ UNCHANGED <<kitIdx, results, successful, failed, candIdx, pdfUrl, attempt>>

\* variant: an entry without name or sku is passed over without being counted
doc_forKit_rejectedNotCounted ==
    /\ program \in DocPrograms
    /\ pc = "forKit"
    /\ IF kitIdx > Len(kits)
       THEN /\ pc' = "done"
            /\ UNCHANGED <<kitIdx, results, successful, failed, candIdx, pdfUrl, attempt,
                           tried, kitRequests, downloads, candidates, call, attempts>>
       ELSE /\ tried' = << >>
            /\ kitRequests' = {}
            /\ downloads' = 0
            /\ candidates' = << >>
            /\ call' = NoCall
            /\ attempts' = << >>
            /\ IF falsy(kits[kitIdx].name) \/ falsy(kits[kitIdx].sku)
               THEN /\ kitIdx' = kitIdx + 1
                    /\ UNCHANGED <<pc, results, successful, failed, candIdx, pdfUrl,
                                   attempt>>
               ELSE /\ pc' = "search"
                    /\ attempt' = 1
                    /\ UNCHANGED <<kitIdx, results, successful, failed, candIdx, pdfUrl>>
    /\ UNCHANGED <<program, raised, kits, pdfs, scraperVars, sanitizerVars, storeVars>>

doc_forKit ==
    /\ program \in DocPrograms
    /\ pc = "forKit"
    /\ IF kitIdx > Len(kits)
       THEN /\ pc' = "done"
            /\ UNCHANGED <<kitIdx, results, successful, failed, candIdx, pdfUrl, attempt,
                           tried, kitRequests, downloads, candidates, call, attempts>>
       ELSE /\ tried' = << >>
            /\ kitRequests' = {}
            /\ downloads' = 0
            /\ candidates' = << >>
            /\ call' = NoCall
            /\ attempts' = << >>
            /\ IF falsy(kits[kitIdx].name) \/ falsy(kits[kitIdx].sku)
               THEN IF program = "processAllKits"
                    THEN EntryDone(FALSE)
                    ELSE /\ kitIdx' = kitIdx + 1
                         /\ UNCHANGED <<pc, results, successful, failed, candIdx, pdfUrl,
                                        attempt>>
               ELSE /\ pc' = "search"
                    /\ attempt' = 1
                    /\ UNCHANGED <<kitIdx, results, successful, failed, candIdx, pdfUrl>>
    /\ UNCHANGED <<program, raised, kits, pdfs, scraperVars, sanitizerVars, storeVars>>

searchBuildInstructions_attempt(r) ==
    /\ program \in DocPrograms
    /\ pc = "search"
    /\ LET url == SearchUrl(kits[kitIdx].name[1])
           t == searchBuildInstructions_try(r)
           found == IF t = "ok" THEN parseArticles(r.text[1], << >>)
                    ELSE IF t = "again" /\ exhausted THEN Return(<< >>)
                    ELSE Raise(r.exc)
       IN /\ Log(url, r)
          /\ IF t = "again" /\ ~exhausted
             THEN /\ call' = Running("searchBuildInstructions", url)
                  /\ Again
                  /\ UNCHANGED <<raised, candidates>>
             ELSE IF found.raised # "none"
             THEN /\ call' = Running("searchBuildInstructions", url)
                  /\ Crash(found.raised)
                  /\ UNCHANGED candidates
             ELSE /\ call' = Returned("searchBuildInstructions", url, found.value)
                  /\ candidates' = found.value
                  /\ IF found.value = << >>
                     THEN EntryDone(FALSE)
                     ELSE /\ pc' = "getPdfLink"
                          /\ candIdx' = 1
                          /\ attempt' = 1
                          /\ UNCHANGED <<kitIdx, results, successful, failed, pdfUrl>>
                  /\ UNCHANGED raised
    /\ UNCHANGED <<program, kits, tried, downloads, pdfs, scraperVars, sanitizerVars, storeVars>>

getPdfLink_attempt(r) ==
    /\ program \in DocPrograms
    /\ pc = "getPdfLink"
    /\ LET url == PageUrl(candidates[candIdx].url)
           t == getPdfLink_try(r)
           link == IF t = "ok" THEN firstPdf(r.text[1]) ELSE None
       IN /\ Log(url, r)
          /\ tried' = (IF attempt = 1 THEN Append(tried, candIdx) ELSE tried)
          /\ CASE t = "again" /\ ~exhausted ->
                    /\ call' = Running("getPdfLink", url)
                    /\ Again
                    /\ UNCHANGED raised
               [] t = "raise" ->
                    /\ call' = Running("getPdfLink", url)
                    /\ Crash(r.exc)
               [] OTHER ->
                    /\ call' = Returned("getPdfLink", url, link)
                    /\ IF link = None \/ link[1] = << >>
                       THEN NextCandidate
                       ELSE /\ pc' = "downloadPdf"
                            /\ pdfUrl' = link[1]
                            /\ attempt' = 1
                            /\ UNCHANGED <<kitIdx, results, successful, failed, candIdx>>
                    /\ UNCHANGED raised
    /\ UNCHANGED <<program, kits, candidates, downloads, pdfs, scraperVars, sanitizerVars, storeVars>>

downloadPdf_attempt(r, w) ==
    /\ program \in DocPrograms
    /\ pc = "downloadPdf"
    /\ LET url == PageUrl(pdfUrl)
           t == downloadPdf_try(r)
           filepath == createPdfFilepath(kits[kitIdx].sku[1],
                                         normalizeName(kits[kitIdx].name[1]))
       IN /\ Log(url, r)
          /\ CASE t = "ok" /\ w.exc = "none" ->
                    /\ pdfs' = writeFile(pdfs, filepath, w.written)
                    /\ downloads' = downloads + 1
                    /\ call' = Returned("downloadPdf", url, Some(TRUE))
                    /\ EntryDone(TRUE)
                    /\ UNCHANGED raised
               [] t = "ok" /\ w.exc # "none" ->
                    /\ pdfs' = writeFile(pdfs, filepath, w.written)
                    /\ call' = Running("downloadPdf", url)
                    /\ Crash(w.exc)
                    /\ UNCHANGED downloads
               [] t = "again" /\ ~exhausted ->
                    /\ call' = Running("downloadPdf", url)
                    /\ Again
                    /\ UNCHANGED <<raised, pdfs, downloads>>
               [] t = "again" /\ exhausted ->
                    /\ call' = Returned("downloadPdf", url, Some(FALSE))
                    /\ NextCandidate
                    /\ UNCHANGED <<raised, pdfs, downloads>>
               [] OTHER ->
                    /\ call' = Running("downloadPdf", url)
                    /\ Crash(r.exc)
                    /\ UNCHANGED <<pdfs, downloads>>
    /\ UNCHANGED <<program, kits, candidates, tried, scraperVars, sanitizerVars, storeVars>>

----------------------------------------------------------------------------
(* lib/sanitizer.py called on its own: the function is applied to one text *)

Texts(alphabet, n) == UNION { [1..k -> alphabet] : k \in 0..n }

Date17Mar2024 == <<"1", "7", " ", "M", "a", "r", " ", "2", "0", "2", "4">>
NotADate == <<"n", "o", "t", " ", "a", " ", "d", "a", "t", "e">>
DateAlphabet == {"1", " ", "\t"}
DateInputs == Texts(DateAlphabet, MaxDateLen) \cup {Date17Mar2024, NotADate}

LinkGwSample == <<"/", "s", "e", "t", "s", "/", "g", "w", "-", "9", "9", "1", "2", "3",
                  "0", "1", "6", "0", "0", "2">>
LinkPlainSample == <<"/", "s", "e", "t", "s", "/", "8", "8", "0", "0", "0", "0", "0", "1">>
LinkAlphabet == {"/", "g", "w", "-"}
LinkInputs == Texts(LinkAlphabet, MaxLinkLen) \cup {LinkGwSample, LinkPlainSample}

sanitizeYear_call ==
    /\ program = "sanitizeYear"
    /\ pc = "call"
    /\ ret' = sanitizeYear(arg)
    /\ IF ret'.raised # "none"
       THEN Propagate(ret'.raised)
       ELSE pc' = "done" /\ UNCHANGED raised
    /\ UNCHANGED <<program, call, attempts, arg, scraperVars, docVars, storeVars>>

sanitizeSKU_call ==
    /\ program = "sanitizeSKU"
    /\ pc = "call"
    /\ ret' = sanitizeSKU(arg)
    /\ IF ret'.raised # "none"
       THEN Propagate(ret'.raised)
       ELSE pc' = "done" /\ UNCHANGED raised
    /\ UNCHANGED <<program, call, attempts, arg, scraperVars, docVars, storeVars>>

----------------------------------------------------------------------------
(* lib_scraper/manageJSON.py called by two processes on the same output.json
   (two runs of scraper.py, one after the other or at the same time).  A
   call is two steps, the load with data.append and the dump; a process
   makes its calls one after the other and stops at the first OSError. *)

Writers == {1, 2}

RecordOf(p) ==
    [name |-> <<"K", "i", "t">>, description |-> None,
     last_known_price |-> <<"$", "5">>,
     sku |-> <<"9", "9", IF p = 1 THEN "1" ELSE "2">>]

\* a process with n calls to make
Appender(n) == [pc |-> IF n = 0 THEN "done" ELSE "load", data |-> << >>, left |-> n]

\* lines 13-22: data = json.load(f), or [] on FileNotFoundError / JSONDecodeError;
\* data.append(item)
append_load(p) ==
    /\ program = "append_to_json"
    /\ appenders[p].pc = "load"
    /\ appenders' = [appenders EXCEPT ![p].pc = "dump",
                                      ![p].data = Append(json_load(outputJson), RecordOf(p))]
    /\ UNCHANGED <<program, pc, raised, call, attempts, scraperVars, docVars,
                   sanitizerVars, stored>>

\* variant: the dump writes what the file holds now, followed by the record
Dumped_reload(p) == Append(json_load(outputJson), RecordOf(p))

\* lines 24-26: the array that is written is the one loaded in the first step
Dumped(p) == appenders[p].data

append_dump(p, w) ==
    /\ program = "append_to_json"
    /\ appenders[p].pc = "dump"
    /\ outputJson' = json_dump(Dumped(p), w)
    /\ IF w = "written"
       THEN /\ appenders' = [appenders EXCEPT
                                 ![p].pc = IF appenders[p].left = 1 THEN "done" ELSE "load",
                                 ![p].left = appenders[p].left - 1]
            /\ stored' = Dumped(p)
       ELSE /\ appenders' = [appenders EXCEPT ![p].pc = "failed"]
            /\ UNCHANGED stored
    /\ UNCHANGED <<program, pc, raised, call, attempts, currentPage, htmls, yielded,
                   pageIdx, kitsToScrape, skuIdx, docVars, sanitizerVars>>

InitStore ==
    /\ program = "append_to_json"
    /\ pc = "call"
    /\ raised = "none"
    /\ call = NoCall
    /\ attempts = << >>
    /\ currentPage = START_PAGE
    /\ htmls = << >>
    /\ yielded = << >>
    /\ pageIdx = 1
    /\ kitsToScrape = << >>
    /\ skuIdx = 1
    /\ outputJson \in StoreFiles
    /\ kits = << >>
    /\ kitIdx = 1
    /\ candidates = << >>
    /\ candIdx = 1
    /\ pdfUrl = << >>
    /\ attempt = 1
    /\ successful = 0
    /\ failed = 0
    /\ results = << >>
    /\ tried = << >>
    /\ kitRequests = {}
    /\ downloads = 0
    /\ pdfs = {}
    /\ arg = << >>
    /\ ret = Return(None)
    /\ appenders \in [Writers -> {Appender(n) : n \in 0..MaxAppends}]
    /\ stored = json_load(outputJson)

NextStore ==
    \/ \E p \in Writers : append_load(p)
    \/ \E p \in Writers, w \in DumpOutcomes : append_dump(p, w)

SpecStore == InitStore /\ [][NextStore]_vars

----------------------------------------------------------------------------
(* The specification *)

RequestBodies == { <<"o", "k">> }

Init ==
    /\ program \in Programs
    /\ pc = (CASE program \in ScraperPrograms \cup GeneratorPrograms -> "fetchListings"
               [] program = "withSSLRetry" -> "withSSLRetry"
               [] program \in DocPrograms -> "forKit"
               [] OTHER -> "call")
    /\ raised = "none"
    /\ call = NoCall
    /\ attempts = << >>
    /\ currentPage = FirstPage
    /\ htmls = << >>
    /\ yielded = << >>
    /\ pageIdx = 1
    /\ kitsToScrape = << >>
    /\ skuIdx = 1
    /\ outputJson \in (IF program \in ScraperPrograms THEN StoreFiles
                       ELSE {[exists |-> FALSE, valid |-> FALSE, data |-> << >>]})
    /\ kits \in (IF program \in DocPrograms THEN Catalogs ELSE {<< >>})
    /\ kitIdx = 1
    /\ candidates = << >>
    /\ candIdx = 1
    /\ pdfUrl = << >>
    /\ attempt = 1
    /\ successful = 0
    /\ failed = 0
    /\ results = << >>
    /\ tried = << >>
    /\ kitRequests = {}
    /\ downloads = 0
    /\ pdfs \in (IF program \in DocPrograms THEN Folders ELSE {{}})
    /\ arg \in (CASE program = "sanitizeYear" -> DateInputs
                  [] program = "sanitizeSKU" -> LinkInputs
                  [] OTHER -> {<< >>})
    /\ ret = Return(None)
    /\ appenders = [p \in Writers |-> Appender(0)]
    /\ stored = << >>

Next ==
    \/ \E r \in Responses(RequestBodies), verify \in BOOLEAN : withSSLRetry_step(r, verify)
    \/ \E r \in Responses(ListingPages), verify \in BOOLEAN : fetchListings_step(r, verify)
    \/ \E r \in SessionResponses(ListingPages) : fetchListings_session(r)
    \/ fetchListings_next
    \/ scraper_forHtml
    \/ scraper_endOfPage
    \/ \E r \in Responses(DetailPages), verify \in BOOLEAN : fetchKitDetails_step(r, verify)
    \/ \E r \in SessionResponses(DetailPages) : fetchKitDetails_session(r)
    \/ \E w \in DumpOutcomes : scraper_gotDetails(w)
    \/ doc_forKit
    \/ \E r \in Responses(SearchPages) : searchBuildInstructions_attempt(r)
    \/ \E r \in Responses(CandidatePages) : getPdfLink_attempt(r)
    \/ \E r \in Responses(PdfBodies) :
          \E w \in Writes(IF r.text = None THEN << >> ELSE r.text[1]) :
              downloadPdf_attempt(r, w)
    \/ sanitizeYear_call
    \/ sanitizeSKU_call

Spec == Init /\ [][Next]_vars

(* The same programs, one side at a time: scraper.py with the fetch
   functions it runs over, the downloader, and the sanitizer functions. *)

ScraperSide == ScraperPrograms \cup GeneratorPrograms \cup {"withSSLRetry"}

InitScraper == Init /\ program \in ScraperSide

NextScraper ==
    \/ \E r \in Responses(RequestBodies), verify \in BOOLEAN : withSSLRetry_step(r, verify)
    \/ \E r \in Responses(ListingPages), verify \in BOOLEAN : fetchListings_step(r, verify)
    \/ \E r \in SessionResponses(ListingPages) : fetchListings_session(r)
    \/ fetchListings_next
    \/ scraper_forHtml
    \/ scraper_endOfPage
    \/ \E r \in Responses(DetailPages), verify \in BOOLEAN : fetchKitDetails_step(r, verify)
    \/ \E r \in SessionResponses(DetailPages) : fetchKitDetails_session(r)
    \/ \E w \in DumpOutcomes : scraper_gotDetails(w)

SpecScraper == InitScraper /\ [][NextScraper]_vars

InitDownloader == Init /\ program \in DocPrograms

NextDownloader ==
    \/ doc_forKit
    \/ \E r \in Responses(SearchPages) : searchBuildInstructions_attempt(r)
    \/ \E r \in Responses(CandidatePages) : getPdfLink_attempt(r)
    \/ \E r \in Responses(PdfBodies) :
          \E w \in Writes(IF r.text = None THEN << >> ELSE r.text[1]) :
              downloadPdf_attempt(r, w)

SpecDownloader == InitDownloader /\ [][NextDownloader]_vars

InitSanitizer == Init /\ program \in {"sanitizeYear", "sanitizeSKU"}

NextSanitizer ==
    \/ sanitizeYear_call
    \/ sanitizeSKU_call

SpecSanitizer == InitSanitizer /\ [][NextSanitizer]_vars

----------------------------------------------------------------------------
(* Properties *)

\* the operations with the two-tier trust fallback, in the programs that use
\* lib/fetchWeb.py and lib/retryStrategy.py
TrustFallbackCall ==
    /\ program \in GeneratorPrograms \cup {"withSSLRetry"}
    /\ call.op \in {"withSSLRetry", "fetchListings", "fetchKitDetails"}
    /\ attempts # << >>

BoundedRetryCall ==
    /\ call.op \in {"searchBuildInstructions", "getPdfLink", "downloadPdf"}
    /\ attempts # << >>

Ok200(a) == a.exc = "none" /\ a.status = 200

\* what a finished trust-fallback call resolved to
CallContent == IF call.op = "withSSLRetry" THEN call.value[1] ELSE call.value
CallSuccess ==
    call.done /\ (IF call.op = "withSSLRetry" THEN call.value[2] ELSE call.value # None)
CallFailure ==
    call.done /\ CallContent = None
          /\ (call.op = "withSSLRetry" => ~call.value[2])

(* C1: in a trust-fallback fetch whose verified attempt failed with a
   certificate error, exactly one further attempt follows, unverified; a 200
   there resolves the fetch to Success with the content of that response,
   anything else (another status, any transport error, a second certificate
   error) to Failure, and there is no third attempt. *)
C1_OneInsecureFallback ==
    (TrustFallbackCall /\ attempts[1].exc = "SSLError") =>
        /\ Len(attempts) <= 2
        /\ Len(attempts) = 1 =>
              /\ ~call.done
              /\ pc \in {"withSSLRetry_fallback", "fetchListings_fallback",
                         "fetchKitDetails_fallback"}
        /\ Len(attempts) = 2 =>
              /\ ~attempts[2].verify
              /\ attempts[2].url = attempts[1].url
              /\ call.done
              /\ IF Ok200(attempts[2])
                 THEN CallSuccess /\ CallContent = attempts[2].text
                 ELSE CallFailure

C1_Witness ==
    /\ TrustFallbackCall
    /\ call.op = "fetchKitDetails"
    /\ Len(attempts) = 2
    /\ attempts[1].exc = "SSLError"
    /\ attempts[2].exc = "SSLError"
    /\ CallFailure

(* C2: an unverified request is only ever the request right after a verified
   request for the same URL that failed with a certificate error; after a
   timeout, a connection failure or a non-200 status no unverified request
   follows. *)
C2_InsecureOnlyAfterCertificateError ==
    \A i \in 1..Len(attempts) :
        ~attempts[i].verify =>
            /\ i > 1
            /\ attempts[i - 1].verify
            /\ attempts[i - 1].exc = "SSLError"
            /\ attempts[i - 1].url = attempts[i].url

C2_Witness ==
    /\ call.op = "fetchListings"
    /\ Len(attempts) = 2
    /\ ~attempts[2].verify
    /\ Ok200(attempts[2])

(* C3, as stated: a timeout on the first attempt of a listing or detail fetch
   is followed by another attempt of that fetch. *)
C3_TimeoutIsRetried ==
    (TrustFallbackCall /\ call.done /\ attempts[1].exc = "Timeout") => Len(attempts) > 1

(* C3, amended: a timeout on the first attempt of a listing or detail fetch
   of lib/fetchWeb (or of withSSLRetry) is followed by no further attempt,
   verified or not: the fetch resolves to Failure after that one attempt. *)
C3_TimeoutFailsAtOnce ==
    (TrustFallbackCall /\ attempts[1].exc = "Timeout") =>
        /\ Len(attempts) = 1
        /\ CallFailure

C3_Witness ==
    /\ TrustFallbackCall
    /\ call.op = "fetchListings"
    /\ attempts[1].exc = "Timeout"
    /\ CallFailure
    /\ htmls # << >> /\ htmls[Len(htmls)] = None

(* C4: no exception of the network layer leaves a fetch operation: whatever
   the requests do (certificate error, timeout, connection failure, any
   status), the program is never ended by a RequestException, and an
   operation that met such an outcome goes on or returns its value. *)
C4_NoNetworkErrorEscapes ==
    /\ ~isinstance(raised, "RequestException")
    /\ (attempts # << >> /\ attempts[Len(attempts)].exc # "none") =>
           \/ call.done
           \/ pc \in {"withSSLRetry_fallback", "fetchListings_fallback",
                      "fetchKitDetails_fallback", "search", "getPdfLink", "downloadPdf"}

C4_Witness ==
    /\ call.op = "downloadPdf"
    /\ call.done
    /\ call.value = Some(FALSE)
    /\ attempts[1].exc = "SSLError"
    /\ attempts[2].exc = "Timeout"
    /\ attempts[3].exc = "ConnectionError"

(* C5, as stated: in a bounded-retry fetch no attempt follows a response
   whose status is neither 2xx nor in the retryable set. *)
Retryable(a) ==
    \/ a.exc # "none"
    \/ a.status \in status_forcelist
C5_NonRetryableStatusFailsAtOnce ==
    BoundedRetryCall =>
        \A i \in 1..(Len(attempts) - 1) : Retryable(attempts[i])

(* C5, amended: a bounded-retry fetch makes no distinction between statuses:
   every non-200 status (404 as much as 503) and every transport failure is
   followed by another attempt for the same URL until MAX_RETRIES attempts
   have been made; only a 200 response ends the loop earlier, and the fetch
   fails only when all MAX_RETRIES attempts failed. *)
C5_EveryFailureIsRetried ==
    BoundedRetryCall =>
        /\ Len(attempts) <= MAX_RETRIES
        /\ \A i \in 1..(Len(attempts) - 1) :
              /\ ~Ok200(attempts[i])
              /\ attempts[i + 1].url = attempts[i].url
        /\ ~Ok200(attempts[Len(attempts)]) =>
              IF Len(attempts) < MAX_RETRIES
              THEN ~call.done /\ pc \in {"search", "getPdfLink", "downloadPdf"}
                   /\ attempt = Len(attempts) + 1
              ELSE /\ call.done
                   /\ call.value = (CASE call.op = "searchBuildInstructions" -> << >>
                                      [] call.op = "getPdfLink" -> None
                                      [] OTHER -> Some(FALSE))

C5_Witness ==
    /\ call.op = "getPdfLink"
    /\ Len(attempts) = 3
    /\ attempts[1].exc = "none" /\ attempts[1].status = 404
    /\ attempts[2].exc = "none" /\ attempts[2].status = 404
    /\ Ok200(attempts[3])
    /\ call.done /\ call.value # None

(* C6: fetchListings yields one outcome for each page index of
   [START_PAGE, END_PAGE], in ascending order, whatever the requests do; a
   None for one page is followed by the outcome of the next page, and the
   generator never raises: the loop of scraper.py starts with the outcomes of
   all the pages. *)
C6_OneOutcomePerPage ==
    program \in ScraperPrograms =>
        /\ Len(htmls) = Len(yielded)
        /\ \A i \in 1..Len(yielded) : yielded[i] = FirstPage + i - 1
        /\ Len(htmls) = currentPage - FirstPage
        /\ currentPage <= END_PAGE + 1
        /\ pc \in {"fetchListings", "fetchListings_fallback"} <=> currentPage <= END_PAGE

C6_Witness ==
    /\ program = "scraper"
    /\ pc = "forHtml"
    /\ Len(htmls) = END_PAGE - FirstPage + 1
    /\ htmls[1] = None
    /\ htmls[2] # None

(* C7: for one entry the candidates whose page is requested are the first,
   the second, ... in resolver order, and stop with the first candidate whose
   link is found and downloaded: at most one download succeeds per entry,
   nothing is requested for the entry after it, and without a success every
   candidate has been tried when the entry ends. *)
EntryEnded == pc \in {"forKit", "done"} /\ kitIdx > 1
C7_PrefixUpToFirstSuccess ==
    program \in DocPrograms =>
        /\ Len(tried) <= Len(candidates)
        /\ \A i \in 1..Len(tried) : tried[i] = i
        /\ downloads <= 1
        /\ downloads = 1 =>
              /\ EntryEnded
              /\ call.op = "downloadPdf" /\ call.done /\ call.value = Some(TRUE)
              /\ tried # << >>
        /\ (EntryEnded /\ downloads = 0 /\ candidates # << >>) =>
              Len(tried) = Len(candidates)
        /\ pc \in {"getPdfLink", "downloadPdf"} =>
              /\ downloads = 0
              /\ Len(tried) \in {candIdx - 1, candIdx}

C7_Witness ==
    /\ program = "processAllKits"
    /\ Len(candidates) = 3
    /\ tried = <<1, 2>>
    /\ downloads = 1
    /\ EntryEnded

(* C8: processKit returns True exactly when the download of some
   candidate's document link succeeded (the file is then in the folder);
   an entry with no candidates, or whose candidates all ended without a link
   or with a failed download, is marked failed, and the loop goes on with the
   next entry. *)
KitPath(kit) == createPdfFilepath(kit.sku[1], normalizeName(kit.name[1]))
C8_SuccessIffDownloaded ==
    (program = "processAllKits" /\ pc # "crashed") =>
        /\ Len(results) = kitIdx - 1
        /\ EntryEnded =>
              /\ results[kitIdx - 1] = (downloads = 1)
              /\ results[kitIdx - 1] =>
                    \E f \in pdfs : f.path = KitPath(kits[kitIdx - 1])
              /\ candidates = << >> => ~results[kitIdx - 1]

C8_Witness ==
    /\ program = "processAllKits"
    /\ pc = "forKit"
    /\ kitIdx = 2 /\ Len(kits) = 2
    /\ results = <<FALSE>>
    /\ tried = <<1, 2, 3>>
    /\ "downloadPdf" \in kitRequests

(* C9: no request of any kind (search, candidate page, download) is issued
   for an entry whose name or sku is missing or empty: such an entry is left
   before the search, and every request belongs to an entry that has both. *)
Rejected(kit) == kit.name = None \/ kit.name[1] = << >> \/ kit.sku = None \/ kit.sku[1] = << >>
C9_NoRequestForRejectedEntry ==
    program \in DocPrograms =>
        /\ pc \in {"search", "getPdfLink", "downloadPdf"} => ~Rejected(kits[kitIdx])
        /\ (EntryEnded /\ Rejected(kits[kitIdx - 1])) =>
              /\ kitRequests = {}
              /\ attempts = << >>
              /\ call = NoCall
        /\ (kitRequests # {} /\ pc # "done") =>
              ~Rejected(kits[IF pc = "forKit" THEN kitIdx - 1 ELSE kitIdx])

C9_Witness ==
    /\ program = "processAllKits"
    /\ pc = "forKit"
    /\ kitIdx = 3
    /\ ~Rejected(kits[1])
    /\ kits[2] = KitEmptySku
    /\ kitRequests = {}
    /\ results = <<TRUE, FALSE>>

(* C10: the listing run is never ended by the ValueError of a row whose
   release date does not split into three tokens: parseListings skips such a
   row and goes on. *)
BadDateRow(row) == row.tds >= 2 /\ row.span # None /\ Len(split(row.span[1])) # 3
C10_BadDateSkipsOnlyTheRow ==
    (program \in ScraperPrograms /\ pageIdx <= Len(htmls) /\ htmls[pageIdx] # None) =>
        LET rows == htmls[pageIdx][1].rows
        IN \A j \in 1..Len(rows) :
              (BadDateRow(rows[j]) /\ parseRows(SubSeq(rows, 1, j - 1), << >>).raised = "none")
                  => ~(pc = "crashed" /\ raised = "ValueError")

(* C11: the listing run is never ended at a row that lacks an inner element
   (fewer than two cells, no date span, no anchor or no href in the second
   cell): parseListings skips such a row and goes on with the next one. *)
LacksInnerElement(row) ==
    \/ row.tds < 2
    \/ row.span = None
    \/ row.a = None
    \/ row.a[1] = None
C11_RowLackingElementsIsSkipped ==
    (program \in ScraperPrograms /\ pageIdx <= Len(htmls) /\ htmls[pageIdx] # None) =>
        LET rows == htmls[pageIdx][1].rows
        IN \A j \in 1..Len(rows) :
              (/\ htmls[pageIdx][1].table
               /\ LacksInnerElement(rows[j])
               /\ parseRows(SubSeq(rows, 1, j - 1), << >>).raised = "none"
               /\ parseRows(SubSeq(rows, 1, j), << >>).raised # "none")
                  => pc # "crashed"

(* C12: the listing run is never ended by a detail page that lacks the main
   container, the title heading or the price label: the item is left out of
   the store and the loop goes on with the next item. *)
LacksRequiredElement(page) ==
    \/ page.main = None
    \/ page.main[1] = None
    \/ page.b = None
C12_DetailPageLackingElementSkipsItem ==
    (/\ program \in ScraperPrograms
     /\ call.op = "fetchKitDetails" /\ call.done /\ call.value # None
     /\ LacksRequiredElement(call.value[1]))
        => pc # "crashed"

(* The tokens of a text: the maximal runs of characters that are no
   whitespace, named by the position of their first character. *)
TokenStarts(s) ==
    { i \in 1..Len(s) : s[i] \notin Whitespace /\ (i = 1 \/ s[i - 1] \in Whitespace) }
TokenAt(s, i) ==
    LET last == CHOOSE j \in i..Len(s) :
                    /\ \A k \in i..j : s[k] \notin Whitespace
                    /\ (j = Len(s) \/ s[j + 1] \in Whitespace)
    IN SubSeq(s, i, last)
NthToken(s, n) ==
    TokenAt(s, CHOOSE i \in TokenStarts(s) :
                   Cardinality({k \in TokenStarts(s) : k < i}) = n - 1)
Digits == {"0", "1", "2", "3", "4", "5", "6", "7", "8", "9"}
AllIn(t, chars) == \A k \in 1..Len(t) : t[k] \in chars
\* day, month name, four-digit year
IsDate(s) ==
    /\ Cardinality(TokenStarts(s)) = 3
    /\ AllIn(NthToken(s, 1), Digits)
    /\ \A k \in 1..Len(NthToken(s, 2)) : NthToken(s, 2)[k] \notin Digits
    /\ Len(NthToken(s, 3)) = 4 /\ AllIn(NthToken(s, 3), Digits)

(* C13, as stated: sanitizeYear returns the year for a day/month/year date
   and fails with the format error on every other input, "not a date"
   among them. *)
C13_FailsOnEveryNonDate ==
    (program = "sanitizeYear" /\ pc # "call") =>
        IF IsDate(arg)
        THEN pc = "done" /\ ret = Return(NthToken(arg, 3))
        ELSE pc = "crashed" /\ raised = "ValueError"

(* C13, amended: sanitizeYear does not look at what the tokens are.  It
   returns "2024" for "17 Mar 2024" and every date is accepted, but "not a
   date" has three tokens too and yields "date"; the format error (ValueError)
   is raised only for a text that does not have exactly three tokens. *)
C13_FormatErrorOnlyOnTokenCount ==
    (program = "sanitizeYear" /\ pc # "call") =>
        /\ arg = Date17Mar2024 => pc = "done" /\ ret = Return(<<"2", "0", "2", "4">>)
        /\ arg = NotADate => pc = "done" /\ ret = Return(<<"d", "a", "t", "e">>)
        /\ IsDate(arg) => pc = "done" /\ ret.raised = "none"
        /\ pc # "done" =>
              /\ pc = "crashed" /\ raised = "ValueError"
              /\ Cardinality(TokenStarts(arg)) # 3

C13_Witness ==
    /\ program = "sanitizeYear"
    /\ arg = NotADate
    /\ pc = "done"
    /\ ret.value = <<"d", "a", "t", "e">>

(* C14: for every text, sanitizeYear returns the third whitespace-separated
   token when the text has exactly three tokens, and raises ValueError when
   it has any other number of tokens. *)
C14_ThirdOfExactlyThreeTokens ==
    (program = "sanitizeYear" /\ pc # "call") =>
        IF Cardinality(TokenStarts(arg)) = 3
        THEN pc = "done" /\ raised = "none" /\ ret = Return(NthToken(arg, 3))
        ELSE pc = "crashed" /\ raised = "ValueError" /\ ret = Raise("ValueError")

C14_Witness ==
    /\ program = "sanitizeYear"
    /\ arg = <<"\t", "1", " ", " ", "1", "\t", "1">>
    /\ pc = "done"
    /\ ret.value = <<"1">>

(* C15: sanitizeSKU returns the text between the second '/' of the link and
   the third one (or the end), without its leading "gw-" when it has one and
   unchanged otherwise, and raises ValueError when the link has fewer than
   two '/' (fewer than three parts). *)
Slashes(s) == { i \in 1..Len(s) : s[i] = "/" }
NthSlash(s, n) ==
    CHOOSE i \in Slashes(s) : Cardinality({k \in Slashes(s) : k < i}) = n - 1
SegmentTwo(s) ==
    SubSeq(s, NthSlash(s, 2) + 1,
           IF Cardinality(Slashes(s)) >= 3 THEN NthSlash(s, 3) - 1 ELSE Len(s))
HasGwPrefix(t) == Len(t) >= 3 /\ t[1] = "g" /\ t[2] = "w" /\ t[3] = "-"
C15_SegmentTwoWithoutGwPrefix ==
    (program = "sanitizeSKU" /\ pc # "call") =>
        /\ arg = LinkGwSample =>
              ret = Return(<<"9", "9", "1", "2", "3", "0", "1", "6", "0", "0", "2">>)
        /\ arg = LinkPlainSample =>
              ret = Return(<<"8", "8", "0", "0", "0", "0", "0", "1">>)
        /\ IF Cardinality(Slashes(arg)) < 2
           THEN pc = "crashed" /\ raised = "ValueError"
           ELSE /\ pc = "done"
                /\ ret.raised = "none"
                /\ ret.value = (IF HasGwPrefix(SegmentTwo(arg))
                                THEN SubSeq(SegmentTwo(arg), 4, Len(SegmentTwo(arg)))
                                ELSE SegmentTwo(arg))

C15_Witness ==
    /\ program = "sanitizeSKU"
    /\ arg = <<"/", "/", "g", "w", "-", "g">>
    /\ pc = "done"
    /\ ret.value = <<"g">>

(* C16: a listing page without a table of class views-table gives no item
   and raises nothing: whatever else the page holds, the loop over its kits
   is entered with an empty list and the run goes on. *)
C16_NoTableYieldsNothing ==
    (/\ program \in ScraperPrograms
     /\ pageIdx <= Len(htmls) /\ htmls[pageIdx] # None
     /\ ~htmls[pageIdx][1].table) =>
        /\ raised = "none"
        /\ pc \in {"fetchListings", "fetchListings_fallback", "forHtml", "forSku"}
        /\ pc = "forSku" => kitsToScrape = << >>

C16_Witness ==
    /\ program = "scraper"
    /\ pc = "forSku"
    /\ pageIdx = 2
    /\ htmls[2] # None
    /\ ~htmls[2][1].table
    /\ htmls[2][1].rows # << >>
    /\ kitsToScrape = << >>

(* C17, as stated: downloadPdf returns True exactly when some attempt of the
   call received a 2xx status. *)
Is2xx(a) == a.exc = "none" /\ a.status \in 200..299
C17_TrueIffSome2xx ==
    (call.op = "downloadPdf" /\ call.done) =>
        (call.value = Some(TRUE) <=> \E i \in 1..Len(attempts) : Is2xx(attempts[i]))

(* C17, amended: downloadPdf returns True exactly when an attempt within
   MAX_RETRIES received status 200 and its body was written: that attempt is
   the last one, the destination then holds exactly that body in place of
   whatever it held, and a failing write leaves downloadPdf as OSError.  Any
   other status, 204 as much as 404, and any transport error leads to the next
   attempt, and False is returned after MAX_RETRIES such attempts. *)
C17_TrueIffStatus200Written ==
    (call.op = "downloadPdf" /\ attempts # << >>) =>
        LET last == attempts[Len(attempts)]
        IN /\ Len(attempts) <= MAX_RETRIES
           /\ \A i \in 1..(Len(attempts) - 1) : ~Ok200(attempts[i])
           /\ IF Ok200(last)
              THEN \/ /\ call.done /\ call.value = Some(TRUE)
                      /\ {f \in pdfs : f.path = KitPath(kits[kitIdx - 1])}
                            = {[path |-> KitPath(kits[kitIdx - 1]), body |-> last.text[1]]}
                   \/ ~call.done /\ pc = "crashed" /\ raised = "OSError"
              ELSE IF Len(attempts) = MAX_RETRIES
                   THEN call.done /\ call.value = Some(FALSE)
                   ELSE ~call.done /\ pc = "downloadPdf"

C17_Witness ==
    /\ call.op = "downloadPdf"
    /\ call.done /\ call.value = Some(TRUE)
    /\ Len(attempts) = 3
    /\ attempts[1].exc = "none" /\ attempts[1].status = 204
    /\ attempts[2].exc = "Timeout"
    /\ Ok200(attempts[3])
    /\ \E f \in pdfs : f.body \in PdfBodies

(* C18: the destination never holds a part of a body: every file of the
   folder holds what it held before the run or a body that was served in
   full. *)
C18_DestinationNeverPartial ==
    program \in DocPrograms =>
        \A f \in pdfs : f.body \in PdfBodies \cup {OldBody}

(* C19: getPdfLink returns the href of the first anchor, in page order and
   among the anchors that have an href, whose last four characters are
   ".pdf" in any mix of upper and lower case, and None when the fetched page
   has no such anchor. *)
HasPdfSuffix(h) ==
    /\ Len(h) >= 4
    /\ h[Len(h) - 3] = "."
    /\ h[Len(h) - 2] \in {"p", "P"}
    /\ h[Len(h) - 1] \in {"d", "D"}
    /\ h[Len(h)] \in {"f", "F"}
C19_FirstPdfHrefAnyCase ==
    (call.op = "getPdfLink" /\ call.done /\ Ok200(attempts[Len(attempts)])) =>
        LET anchors == attempts[Len(attempts)].text[1]
            matches == { i \in 1..Len(anchors) :
                            anchors[i] # None /\ HasPdfSuffix(anchors[i][1]) }
        IN IF matches = {}
           THEN call.value = None
           ELSE \E i \in matches :
                   /\ \A k \in matches : i <= k
                   /\ call.value = Some(anchors[i][1])

C19_Witness ==
    /\ call.op = "getPdfLink"
    /\ call.done
    /\ Len(attempts[Len(attempts)].text[1]) = 4
    /\ call.value = Some(<<"/", "a", ".", "P", "D", "F">>)
    /\ pc = "downloadPdf"

(* C20: a getPdfLink call none of whose attempts received a 2xx status goes
   through all MAX_RETRIES attempts and returns None; and after None, whether
   the page could not be fetched or was fetched and has no document link, no
   download is requested for the candidate: the next candidate's page is
   requested, or the entry ends as failed when it was the last one. *)
C20_FetchFailureIsNoLink ==
    (call.op = "getPdfLink" /\ attempts # << >>) =>
        /\ (\A i \in 1..Len(attempts) : ~Is2xx(attempts[i])) =>
              IF Len(attempts) < MAX_RETRIES
              THEN ~call.done /\ pc = "getPdfLink" /\ attempt = Len(attempts) + 1
              ELSE call.done /\ call.value = None
        /\ (call.done /\ call.value = None) =>
              IF Len(tried) < Len(candidates)
              THEN pc = "getPdfLink" /\ candIdx = Len(tried) + 1 /\ attempt = 1
              ELSE EntryEnded /\ results # << >> /\ ~results[Len(results)]

C20_Witness ==
    /\ call.op = "getPdfLink"
    /\ call.done /\ call.value = None
    /\ Len(attempts) = MAX_RETRIES
    /\ attempts[1].exc = "none" /\ attempts[1].status = 404
    /\ attempts[2].exc = "Timeout"
    /\ attempts[3].exc = "none" /\ attempts[3].status = 503
    /\ tried = <<1>>
    /\ Len(candidates) = 3
    /\ pc = "getPdfLink" /\ candIdx = 2

(* C21: a search none of whose attempts received status 200 goes through all
   MAX_RETRIES attempts and returns the empty list; and after an empty list,
   whether every attempt failed or the page held no result, the entry ends as
   failed with no request to any candidate page and no download. *)
C21_FailedSearchIsNoResult ==
    (call.op = "searchBuildInstructions" /\ attempts # << >>) =>
        /\ (\A i \in 1..Len(attempts) : ~Ok200(attempts[i])) =>
              IF Len(attempts) < MAX_RETRIES
              THEN ~call.done /\ pc = "search" /\ attempt = Len(attempts) + 1
              ELSE call.done /\ call.value = << >>
        /\ (call.done /\ call.value = << >>) =>
              /\ EntryEnded
              /\ results # << >> /\ ~results[Len(results)]
              /\ kitRequests = {"search"}
              /\ tried = << >>
              /\ downloads = 0

C21_Witness ==
    /\ program = "processAllKits"
    /\ call.op = "searchBuildInstructions"
    /\ call.done /\ call.value = << >>
    /\ Len(attempts) = MAX_RETRIES
    /\ attempts[1].exc = "none" /\ attempts[1].status = 204
    /\ attempts[2].exc = "ConnectionError"
    /\ attempts[3].exc = "none" /\ attempts[3].status = 404
    /\ failed = 1

(* C22: a search that received status 200 returns one candidate for each
   result container that has a title, an anchor and an href on that anchor,
   in document order, and raises nothing: a container without one of them is
   left out. *)
HasTitleAndLink(article) ==
    article.h2 # None /\ article.a # None /\ article.a[1] # None
CandidatesOf(articles) ==
    LET kept == SelectSeq(articles, HasTitleAndLink)
    IN [i \in 1..Len(kept) |-> [title |-> strip(kept[i].h2[1]), url |-> kept[i].a[1][1]]]
C22_OneCandidatePerCompleteContainer ==
    (/\ call.op = "searchBuildInstructions"
     /\ attempts # << >>
     /\ Ok200(attempts[Len(attempts)])) =>
        /\ call.done
        /\ call.value = CandidatesOf(attempts[Len(attempts)].text[1])

(* C23: every append that completes leaves the store holding the array it
   held before (nothing, when the file was absent or no JSON) followed by the
   new record, whether or not an equal record is already there: the array
   grows by one element at its end on every call. *)
C23_AppendAddsOneAtTheEnd ==
    [][/\ (pc = "gotDetails" /\ call.value # None /\ pc' = "forSku") =>
             /\ outputJson'.exists /\ outputJson'.valid
             /\ outputJson'.data =
                   (IF outputJson.exists /\ outputJson.valid THEN outputJson.data ELSE << >>)
                   \o <<[name |-> strip(call.value[1].main[1][1]),
                         description |-> firstVisible(call.value[1].containers),
                         last_known_price |-> strip(call.value[1].b[1][1]),
                         sku |-> kitsToScrape[skuIdx]]>>
       /\ (outputJson' # outputJson /\ outputJson'.valid) =>
             (pc = "gotDetails" /\ call.value # None /\ pc' = "forSku")]_vars

C23_Witness ==
    /\ program = "scraper"
    /\ outputJson.valid
    /\ Len(outputJson.data) = 3
    /\ outputJson.data[1] = StoredRecord
    /\ outputJson.data[2] = outputJson.data[3]

(* C25: every write to the record file leaves a complete JSON array in it. *)
C25_EveryWriteLeavesValidJson ==
    [][outputJson' # outputJson => outputJson'.valid]_vars

\* a is the beginning of b
IsPrefix(a, b) == Len(a) <= Len(b) /\ SubSeq(b, 1, Len(a)) = a

(* C24: an append that completes, made on the store as it is now (no other
   write came between its load and its dump), leaves the array that the last
   completed write left there as a prefix of the new array: nothing stored is
   lost by a later append, also after a write that failed. *)
C24_StoredRecordsStayAsPrefix ==
    [][\A p \in Writers :
          (/\ appenders[p].pc = "dump"
           /\ appenders'[p].pc \in {"load", "done"}
           /\ appenders[p].data = Append(json_load(outputJson), RecordOf(p)))
              => IsPrefix(stored, outputJson'.data)]_vars

(* C26: a call writes the array it loaded, followed by its record, whatever
   the file holds by then: what another process wrote between the load and
   the dump of the call is not in the file after the dump. *)
C26_DumpWritesWhatWasLoaded ==
    [][\A p \in Writers :
          (appenders[p].pc = "dump" /\ appenders'[p].pc \in {"load", "done"}) =>
              /\ outputJson'.valid
              /\ outputJson'.data = appenders[p].data
              /\ Len(outputJson'.data) >= 1
              /\ outputJson'.data[Len(outputJson'.data)] = RecordOf(p)]_vars

\* both processes made their one call, both calls completed, and the final
\* array lacks the record of one of them
C26_Witness ==
    /\ program = "append_to_json"
    /\ \A p \in Writers : appenders[p].pc = "done"
    /\ outputJson.valid
    /\ outputJson.data = <<StoredRecord, RecordOf(2)>>
    /\ appenders[1].data = <<StoredRecord, RecordOf(1)>>
    /\ appenders[2].data = <<StoredRecord, RecordOf(2)>>

(* C27: once the generator has given the outcome of its last page, iterating
   the same instance again ends at once: the requests made and the elements
   yielded are those of the single pass, one per page of START_PAGE..END_PAGE
   in order, and the page counter stays past END_PAGE. *)
C27_SinglePass ==
    (program = "fetchListings" /\ call.op = "next") =>
        /\ pc = "exhausted"
        /\ raised = "StopIteration"
        /\ currentPage = END_PAGE + 1
        /\ yielded = [i \in 1..(END_PAGE - FirstPage + 1) |-> FirstPage + i - 1]
        /\ Len(htmls) = Len(yielded)
        /\ attempts # << >>
        /\ \A i \in 1..Len(attempts) : attempts[i].url = ListingUrl(END_PAGE)

\* the instance was iterated again after a pass whose last page succeeded
C27_Witness ==
    /\ program = "fetchListings"
    /\ call.op = "next"
    /\ pc = "exhausted"
    /\ Len(yielded) = END_PAGE - FirstPage + 1
    /\ htmls[Len(htmls)] # None

\* one step of the loop over the pages and their kits in scraper.py
DriveStep ==
    program \in ScraperPrograms =>
         /\ (pc = "gotDetails" /\ call.value = None) =>
               /\ outputJson' = outputJson
               /\ skuIdx' = skuIdx + 1
               /\ pc' = "forSku"
               /\ UNCHANGED <<raised, pageIdx, kitsToScrape>>
         /\ (pc = "forHtml" /\ pageIdx <= Len(htmls) /\ htmls[pageIdx] = None) =>
               /\ pageIdx' = pageIdx + 1
               /\ pc' = "forHtml"
               /\ UNCHANGED <<raised, call, attempts, outputJson>>
         /\ (attempts' # attempts /\ call'.op = "fetchKitDetails") =>
               /\ skuIdx <= Len(kitsToScrape)
               /\ call'.url = KitUrl(kitsToScrape[skuIdx])
               /\ UNCHANGED <<skuIdx, kitsToScrape, pageIdx>>
         /\ skuIdx' # skuIdx =>
               \/ skuIdx' = skuIdx + 1 /\ pc = "gotDetails" /\ UNCHANGED kitsToScrape
               \/ skuIdx' = 1 /\ pc = "forHtml"

(* C28: in the listing drive a detail fetch that gave Failure appends
   nothing and the drive goes on with the next kit of the page; a listing
   page that gave Failure is left without any detail fetch and the drive goes
   on with the next page; the detail fetches of a page are made for its kits
   in the order parseListings returned them. *)
C28_FailureSkipsAndOrderIsKept == [][DriveStep]_vars

\* the first page gave Failure, the second page has two kits, the detail
\* fetch of its first kit gave Failure and the drive is at its second kit
C28_Witness ==
    /\ program = "scraper"
    /\ pageIdx = 2
    /\ Len(htmls) >= 2
    /\ htmls[1] = None
    /\ pc = "forSku"
    /\ Len(kitsToScrape) = 2
    /\ skuIdx = 2
    /\ call.op = "fetchKitDetails" /\ call.done /\ call.value = None
    /\ call.url = KitUrl(kitsToScrape[1])

\* the identifier in the link of a row, and the rows whose identifier is kept
IdOf(row) ==
    LET seg == SegmentTwo(strip(row.a[1][1]))
    IN IF HasGwPrefix(seg) THEN SubSeq(seg, 4, Len(seg)) ELSE seg
Scheduled(row) ==
    /\ row.tds >= 2
    /\ row.span # None
    /\ Cardinality(TokenStarts(row.span[1])) >= 3
    /\ NthToken(row.span[1], 3) # <<"2", "0", "2", "5">>
    /\ row.a # None /\ row.a[1] # None
    /\ Cardinality(Slashes(strip(row.a[1][1]))) >= 2
    /\ Len(IdOf(row)) >= 2 /\ IdOf(row)[1] = "9" /\ IdOf(row)[2] = "9"
RECURSIVE IdsOf(_)
IdsOf(rows) ==
    IF rows = << >> THEN << >>
    ELSE IF Scheduled(Head(rows)) THEN <<IdOf(Head(rows))>> \o IdsOf(Tail(rows))
    ELSE IdsOf(Tail(rows))
\* for each page the site may serve, the identifiers of its listing table
IdsOfPage == [page \in ListingPages |-> IF page.table THEN IdsOf(page.rows) ELSE << >>]

(* C29: the kits parseListings returns for a page are, in row order, the
   identifiers of the rows of the listing table that have a date of another
   year than 2025 and an identifier that starts with 99, and no others; a
   detail fetch is only ever made for such an identifier. *)
C29_OnlyOtherYearsWithPrefix ==
    program \in ScraperPrograms =>
        /\ pc \in {"forSku", "gotDetails", "fetchKitDetails_fallback"} =>
              kitsToScrape = IdsOfPage[htmls[pageIdx][1]]
        /\ call.op = "fetchKitDetails" =>
              /\ Len(call.url.id) >= 2 /\ call.url.id[1] = "9" /\ call.url.id[2] = "9"
              /\ \E k \in 1..Len(htmls) :
                    /\ htmls[k] # None
                    /\ \E j \in 1..Len(IdsOfPage[htmls[k][1]]) :
                          IdsOfPage[htmls[k][1]][j] = call.url.id

\* a page with a 2024 row of id 991, a 2025 row of id 992 and a 2024 row of
\* id 881 was parsed, and the detail fetch of 991 was made
C29_Witness ==
    /\ program \in ScraperPrograms
    /\ pc = "gotDetails"
    /\ htmls[pageIdx][1].rows = <<Row(Date2024, LinkGw991), Row(Date2025, Link992),
                                   Row(Date2024, Link881)>>
    /\ kitsToScrape = << <<"9", "9", "1">> >>
    /\ call.url = KitUrl(<<"9", "9", "1">>)

(* C30: the drive has the outcome of every page of START_PAGE..END_PAGE
   before it parses the first page, makes a detail fetch or appends to the
   store. *)
C30_AllPagesFetchedFirst ==
    program \in ScraperPrograms =>
        /\ pc \notin {"fetchListings", "fetchListings_fallback", "crashed"} =>
              yielded = [i \in 1..(END_PAGE - FirstPage + 1) |-> FirstPage + i - 1]
        /\ Len(yielded) < END_PAGE - FirstPage + 1 =>
              /\ pageIdx = 1
              /\ kitsToScrape = << >>
              /\ skuIdx = 1
              /\ call.op \in {"none", "fetchListings"}
              /\ outputJson \in StoreFiles

\* the first page is being worked on, with all the pages fetched
C30_Witness ==
    /\ program \in ScraperPrograms
    /\ pc = "gotDetails"
    /\ pageIdx = 1
    /\ call.value # None
    /\ Len(htmls) = END_PAGE - FirstPage + 1
    /\ Len(htmls) >= 2

\* a call makes at most MAX_RETRIES requests, and the calls of an entry are
\* one search and, for each candidate tried, one getPdfLink and at most one
\* downloadPdf, each candidate being tried once
RequestsBounded ==
    /\ Len(attempts) <= MAX_RETRIES
    /\ attempt <= MAX_RETRIES
    /\ Len(tried) <= Len(candidates)
    /\ \A i \in 1..Len(tried) : tried[i] = i
    /\ pc \in {"getPdfLink", "downloadPdf"} =>
          /\ candIdx <= Len(candidates)
          /\ Len(tried) \in {candIdx - 1, candIdx}
          /\ pc = "downloadPdf" => Len(tried) = candIdx
    /\ kitIdx <= Len(kits) + 1

(* C31: the document drive makes at most MAX_RETRIES requests in each call
   of searchBuildInstructions, getPdfLink and downloadPdf, at most
   MAX_RETRIES * (1 + 2k) for an entry with k candidates, and never stops
   anywhere but at the return of the totals. *)
C31_BoundedAndReturnsTotals ==
    program \in DocPrograms =>
        /\ RequestsBounded
        /\ pc # "crashed"

\* the number of entries of a sequence that equal v
CountOf(seq, v) == Cardinality({i \in 1..Len(seq) : seq[i] = v})

(* C32: the totals of processAllKits count every entry it has finished
   exactly once, as a success or as a failure, an entry without name or sku
   as a failure; when it returns, successful + failed is the number of
   entries of the catalog. *)
C32_TotalsPartitionTheCatalog ==
    program = "processAllKits" =>
        /\ Len(results) = kitIdx - 1
        /\ successful = CountOf(results, TRUE)
        /\ failed = CountOf(results, FALSE)
        /\ successful + failed = kitIdx - 1
        /\ \A i \in 1..Len(results) : Rejected(kits[i]) => ~results[i]
        /\ pc = "done" => successful + failed = Len(kits)

\* processAllKits returned (1, 1) for a catalog of one entry without name
\* and one entry whose document was downloaded
C32_Witness ==
    /\ program = "processAllKits"
    /\ pc = "done"
    /\ Len(kits) = 2
    /\ kits[1] = KitNoName
    /\ successful = 1
    /\ failed = 1
    /\ results = <<FALSE, TRUE>>

(* C33: every request of searchBuildInstructions, getPdfLink and downloadPdf
   is made with certificate verification; a certificate error is one failed
   attempt of the MAX_RETRIES: it is followed by a verified request for the
   same URL while attempts remain, and by the failure value of the call when
   it was the last one. *)
C33_NoTrustFallbackInDocumentPath ==
    BoundedRetryCall =>
        /\ \A i \in 1..Len(attempts) : attempts[i].verify
        /\ Len(attempts) <= MAX_RETRIES
        /\ \A i \in 1..(Len(attempts) - 1) :
              attempts[i].exc = "SSLError" =>
                  /\ attempts[i + 1].url = attempts[i].url
                  /\ attempts[i + 1].verify
        /\ attempts[Len(attempts)].exc = "SSLError" =>
              IF Len(attempts) < MAX_RETRIES
              THEN /\ ~call.done
                   /\ attempt = Len(attempts) + 1
                   /\ pc = (CASE call.op = "searchBuildInstructions" -> "search"
                              [] call.op = "getPdfLink" -> "getPdfLink"
                              [] OTHER -> "downloadPdf")
              ELSE /\ call.done
                   /\ call.value = (CASE call.op = "searchBuildInstructions" -> << >>
                                      [] call.op = "getPdfLink" -> None
                                      [] OTHER -> Some(FALSE))

\* a download whose first request failed on the certificate and whose second,
\* verified, request succeeded
C33_Witness ==
    /\ program \in DocPrograms
    /\ call.op = "downloadPdf"
    /\ call.done /\ call.value = Some(TRUE)
    /\ Len(attempts) = 2
    /\ attempts[1].exc = "SSLError" /\ attempts[1].verify
    /\ Ok200(attempts[2]) /\ attempts[2].verify
    /\ attempts[2].url = attempts[1].url

====
